---- MODULE Spec2Model ----
(***************************************************************************)
(* Server node of gorse: identity bootstrap (Server.Serve), the meta sync  *)
(* loop (Server.Sync) and the two server-side caches (PopularItemsCache,   *)
(* HiddenItemsCache) of package server.                                    *)
(***************************************************************************)
EXTENDS Integers, Sequences, FiniteSets, TLC

(***************************************************************************)
(* Bounds of the model.                                                    *)
(***************************************************************************)
\* number of GetMeta requests a run of Sync may issue
MaxTicks == 2
\* number of process restarts against the same cacheFile
MaxStarts == 2
\* the wall clock runs from 0 to MaxTime (seconds)
MaxTime == 1
\* popularity scores run from 1 to MaxScore
MaxScore == 2

(***************************************************************************)
(* Values.                                                                 *)
(***************************************************************************)
\* names base.GetRandomName may draw
Names == {"n1", "n2"}
\* the empty string: no server name / no recorded store address
NoName == ""
NoPath == ""
\* store connection handles: the placeholder of NewServer, the value a failed
\* Open leaves in the field, or the connection to an address (the address)
NoDatabase == "NoDatabase"
FailedOpen == "FailedOpen"
\* JSON members of a configuration blob: a value, absent, or of the wrong type
Absent == "absent"
BadType == "badtype"
\* meta returned by the last GetMeta: none (the call failed)
NilMeta == [nil |-> TRUE]

FullBlob(d, c, t) == [nil |-> FALSE, syntax |-> TRUE, DataStore |-> d, CacheStore |-> c, MetaTimeout |-> t]

\* a blob that is not JSON at all
GarbageBlob == [nil |-> FALSE, syntax |-> FALSE, DataStore |-> Absent, CacheStore |-> Absent, MetaTimeout |-> Absent]

\* the configuration blobs the master may return in the sync-loop specification
Blobs ==
    { FullBlob("d1", "c1", "t1"),
      FullBlob("d2", "c2", "t2"),
      FullBlob("d1", "c2", "t1"),
      FullBlob("d2", BadType, "t2"),
      FullBlob("d1", "c1", Absent),
      GarbageBlob }

\* the blobs of the cache specifications: only the cache store moves
CacheBlobs == { FullBlob("d1", "c1", "t1"), FullBlob("d1", "c2", "t1") }

\* item identifiers
Items == {"a", "b"}
\* the item of the hidden-items specifications
HiddenIds == {"a"}
\* the goroutine of NewPopularItemsCache and the request handlers
Loop == "loop"
Handlers == {"h1", "h2"}
Threads == {Loop} \cup Handlers
\* addresses of cache stores
CacheAddrs == {"c1", "c2"}
\* time.Time{}.Unix() and math.Inf(-1): below every timestamp of the model
ZeroTime == -1
NegInf == -2
\* outcomes of a remote query on a live connection
Outcomes == {"ok", "error", "notassigned"}

\* the port the node serves HTTP on (serverPort of NewServer)
HttpPort == 8087

\* config.GetDefaultConfig(): no store configured, the default meta timeout
GetDefaultConfig == [DataStore |-> NoPath, CacheStore |-> NoPath, MetaTimeout |-> "t0"]

VARIABLES
    \* the local cache file: the persisted server name (NoName: none)
    cacheFile,
    \* Server.Serve: "start", "serving" or "fatal"; load error of LoadLocalCache
    servePc, loadErr, starts,
    \* Server fields
    serverName, testMode, dataPath, cachePath, DataClient, CacheClient, GorseConfig,
    \* Server.Sync: "off" (not spawned), "tick", "sleep", "returned"
    syncPc,
    \* the meta of the last and of the previous GetMeta, the calls of the last
    \* tick in order, the number of GetMeta requests, the last sleep
    meta, prevMeta, tickLog, getMetaCount, sleepFor,
    \* the requests sent to the master over masterClient, in order (the first
    \* MaxTicks of them)
    rpcLog,
    \* wall clock; per cache store address the hidden-items collection (item ->
    \* "became hidden" timestamp); per item the lowest timestamp ever written
    clock, hiddenStore, firstHidden,
    \* HiddenItemsCache fields: hiddenItems, updateTime, mu
    hiddenItems, updateTime, hcMu,
    \* the refresh goroutine of NewHiddenItemsCache: position, and the locals
    \* ts, hiddenItems and err of sync
    hcPc, hcTs, hcNew, hcErr,
    \* the IsHidden call of a request handler
    ih,
    \* the hidden snapshot as the last completed refresh published it
    lastHidden,
    \* per cache store address the popular-items collection (item -> score)
    popStore,
    \* PopularItemsCache fields: scores, mu, test
    scores, scMu, popTest,
    \* per thread its run of PopularItemsCache.sync: position, the locals
    \* scores and err, and the collection the range query read
    spc, snew, serr, ssrc,
    \* per request handler its GetSortedScore call
    gs,
    \* the collection read by the refresh that published scores, and the items
    \* of all published snapshots
    lastSource, everPopular

idVars == <<cacheFile, servePc, loadErr, starts, serverName>>
syncVars == <<testMode, dataPath, cachePath, DataClient, CacheClient, GorseConfig,
              syncPc, meta, prevMeta, tickLog, getMetaCount, sleepFor, rpcLog>>
envVars == <<clock, hiddenStore, firstHidden>>
hcVars == <<hiddenItems, updateTime, hcMu, hcPc, hcTs, hcNew, hcErr>>
hiddenVars == <<hcVars, ih, lastHidden>>
popVars == <<popStore, scores, scMu, popTest, spc, snew, serr, ssrc, gs, lastSource, everPopular>>
vars == <<idVars, syncVars, envVars, hiddenVars, popVars>>

(***************************************************************************)
(* NewServer: the state of a constructed server.                           *)
(***************************************************************************)
NewServer ==
    /\ serverName = NoName
    /\ dataPath = NoPath
    /\ cachePath = NoPath
    /\ DataClient = NoDatabase
    /\ CacheClient = NoDatabase
    /\ GorseConfig = GetDefaultConfig
    /\ servePc = "start"
    /\ loadErr = FALSE
    /\ syncPc = "off"
    /\ meta = NilMeta
    /\ prevMeta = NilMeta
    /\ tickLog = <<>>
    /\ getMetaCount = 0
    /\ sleepFor = "none"
    /\ rpcLog = <<>>

\* sync.RWMutex, unlocked
Unlocked == [writer |-> FALSE, readers |-> 0]

IdleCall == [pc |-> "idle", members |-> <<>>, items |-> {}, time |-> ZeroTime,
             deltaErr |-> FALSE, result |-> <<>>, err |-> FALSE]

\* NewHiddenItemsCache: an empty set, the zero time, the goroutine spawned
NewHiddenItemsCache ==
    /\ hiddenItems = {}
    /\ updateTime = ZeroTime
    /\ hcMu = Unlocked
    /\ hcPc = "now"
    /\ hcTs = ZeroTime
    /\ hcNew = {}
    /\ hcErr = "nil"
    /\ ih = IdleCall
    /\ lastHidden = [items |-> {}, time |-> ZeroTime]

IdleScore == [pc |-> "idle", member |-> "", score |-> 0]

\* NewPopularItemsCache (test = FALSE: the goroutine is spawned) and
\* newPopularItemsCacheForTest (test = TRUE): an empty map
NewPopularItemsCache(test) ==
    /\ scores = << >>
    /\ scMu = Unlocked
    /\ popTest = test
    /\ spc = [t \in Threads |-> IF t = Loop /\ ~test THEN "sync" ELSE "none"]
    /\ snew = [t \in Threads |-> << >>]
    /\ serr = [t \in Threads |-> "nil"]
    /\ ssrc = [t \in Threads |-> << >>]
    /\ gs = [h \in Handlers |-> IdleScore]
    /\ lastSource = [published |-> FALSE, data |-> << >>]
    /\ everPopular = {}

InitEnv ==
    /\ clock = 0
    /\ hiddenStore = [c \in CacheAddrs |-> << >>]
    /\ firstHidden = << >>
    /\ popStore = [c \in CacheAddrs |-> << >>]

Init ==
    /\ NewServer
    /\ NewHiddenItemsCache
    /\ NewPopularItemsCache(FALSE)
    /\ InitEnv
    /\ cacheFile \in Names \cup {NoName}
    /\ testMode \in BOOLEAN
    /\ starts = 0

(***************************************************************************)
(* Server.Serve, up to `go s.Sync()`.                                      *)
(***************************************************************************)
\* LoadLocalCache: the persisted name, or on failure a state without a name
LoadLocalCache(ok) == IF ok THEN [ServerName |-> cacheFile, err |-> FALSE]
                      ELSE [ServerName |-> NoName, err |-> TRUE]

NeedsNameAlways(state) == TRUE

\* `if state.ServerName == ""`
NeedsName(state) == state.ServerName = NoName

Serve(loadOk, randomName, writeOk, dialOk) ==
    /\ servePc = "start"
    /\ LET state == LoadLocalCache(loadOk)
           fresh == NeedsName(state)
           name == IF fresh THEN randomName ELSE state.ServerName
           fatal == (fresh /\ ~writeOk) \/ ~dialOk
       IN /\ loadErr' = state.err
          /\ cacheFile' = IF fresh /\ writeOk THEN name ELSE cacheFile
          /\ serverName' = IF fresh /\ ~writeOk THEN serverName ELSE name
          /\ servePc' = IF fatal THEN "fatal" ELSE "serving"
          /\ syncPc' = IF fatal THEN syncPc ELSE "tick"
    /\ UNCHANGED <<starts, testMode, dataPath, cachePath, DataClient, CacheClient,
                   GorseConfig, meta, prevMeta, tickLog, getMetaCount, sleepFor, rpcLog>>
    /\ UNCHANGED <<envVars, hiddenVars, popVars>>

(***************************************************************************)
(* Server.Sync: one tick, from GetMeta to the sleep label.                 *)
(***************************************************************************)
SetField(old, v) == IF v \in {Absent, BadType} THEN old ELSE v

\* json.Unmarshal([]byte(meta.Config), &s.GorseConfig): invalid JSON leaves the
\* target alone; a member of the wrong type is skipped and reported, the
\* others are stored; a member the blob lacks keeps its value
Unmarshal(blob, cfg) ==
    IF ~blob.syntax THEN [cfg |-> cfg, err |-> TRUE]
    ELSE [cfg |-> [DataStore |-> SetField(cfg.DataStore, blob.DataStore),
                   CacheStore |-> SetField(cfg.CacheStore, blob.CacheStore),
                   MetaTimeout |-> SetField(cfg.MetaTimeout, blob.MetaTimeout)],
          err |-> BadType \in {blob.DataStore, blob.CacheStore, blob.MetaTimeout}]

\* data.Open / cache.Open: the connection, or an error and no connection
Open(addr, ok) == IF ok THEN [client |-> addr, err |-> FALSE]
                  ELSE [client |-> FailedOpen, err |-> TRUE]

NeedsOpenAlways(path, addr) == TRUE

\* `if s.dataPath != s.GorseConfig.Database.DataStore` (and the cache twin)
NeedsOpen(path, addr) == path # addr

\* a step "connect to ... store": the new client and path, whether the tick
\* goes on, and whether Open was called
Connect(path, client, addr, ok) ==
    IF NeedsOpen(path, addr)
    THEN LET o == Open(addr, ok)
         IN [client |-> o.client, path |-> IF o.err THEN path ELSE addr,
             err |-> o.err, opened |-> TRUE]
    ELSE [client |-> client, path |-> path, err |-> FALSE, opened |-> FALSE]

NodeInfoAnonymous(name) == [NodeType |-> "ServerNode", NodeName |-> NoName, HttpPort |-> HttpPort]

\* &protocol.NodeInfo{NodeType: ..., NodeName: s.serverName, HttpPort: ...}
NodeInfo(name) == [NodeType |-> "ServerNode", NodeName |-> name, HttpPort |-> HttpPort]

\* a request on the channel to the master
Request(method, info) == [method |-> method, info |-> info]

AbortsNever(err) == FALSE

\* `if err != nil { ...; goto sleep }`
Aborts(err) == err

\* one pass of the loop body, from GetMeta to the sleep label
Tick(res, dataOk, cacheOk) ==
    /\ syncPc = "tick"
    /\ prevMeta' = meta
    /\ meta' = res
    /\ syncPc' = "sleep"
    /\ IF res.nil
       THEN \* failed to get meta
            /\ tickLog' = <<"GetMeta">>
            /\ UNCHANGED <<GorseConfig, dataPath, cachePath, DataClient, CacheClient>>
       ELSE LET u == Unmarshal(res, GorseConfig)
                d == Connect(dataPath, DataClient, u.cfg.DataStore, dataOk)
                c == Connect(cachePath, CacheClient, u.cfg.CacheStore, cacheOk)
            IN /\ GorseConfig' = u.cfg
               /\ IF Aborts(u.err)
                  THEN \* failed to parse master config
                       /\ tickLog' = <<"GetMeta", "Unmarshal">>
                       /\ UNCHANGED <<dataPath, cachePath, DataClient, CacheClient>>
                  ELSE /\ DataClient' = d.client
                       /\ dataPath' = d.path
                       /\ IF Aborts(d.err)
                          THEN \* failed to connect data store
                               /\ tickLog' = <<"GetMeta", "Unmarshal", "data.Open">>
                               /\ UNCHANGED <<cachePath, CacheClient>>
                          ELSE /\ CacheClient' = c.client
                               /\ cachePath' = c.path
                               /\ tickLog' = <<"GetMeta", "Unmarshal">>
                                      \o (IF d.opened THEN <<"data.Open">> ELSE <<>>)
                                      \o (IF c.opened THEN <<"cache.Open">> ELSE <<>>)
    /\ UNCHANGED <<idVars, testMode, sleepFor, envVars, hiddenVars, popVars>>

\* one of the first MaxTicks ticks
SyncTick(res, dataOk, cacheOk) ==
    /\ getMetaCount < MaxTicks
    /\ getMetaCount' = getMetaCount + 1
    /\ rpcLog' = Append(rpcLog, Request("GetMeta", NodeInfo(serverName)))
    /\ Tick(res, dataOk, cacheOk)

\* a tick after the first MaxTicks, which are the ones counted and logged
SyncTickSteady(res, dataOk, cacheOk) ==
    /\ getMetaCount = MaxTicks
    /\ UNCHANGED <<getMetaCount, rpcLog>>
    /\ Tick(res, dataOk, cacheOk)

ReturnsAlways(mode) == TRUE

ReturnsNever(mode) == FALSE

\* `if s.testMode { return }`
Returns(mode) == mode

\* the sleep label: return in test mode, else sleep MetaTimeout and loop
SyncSleep ==
    /\ syncPc = "sleep"
    /\ IF Returns(testMode)
       THEN /\ syncPc' = "returned"
            /\ UNCHANGED sleepFor
       ELSE /\ syncPc' = "tick"
            /\ sleepFor' = GorseConfig.MetaTimeout
    /\ UNCHANGED <<idVars, testMode, dataPath, cachePath, DataClient, CacheClient,
                   GorseConfig, meta, prevMeta, tickLog, getMetaCount, rpcLog>>
    /\ UNCHANGED <<envVars, hiddenVars, popVars>>

(***************************************************************************)
(* The process ends and is started again with the same cacheFile.          *)
(***************************************************************************)
Restart ==
    /\ servePc # "start"
    /\ starts < MaxStarts
    /\ starts' = starts + 1
    /\ serverName' = NoName
    /\ dataPath' = NoPath
    /\ cachePath' = NoPath
    /\ DataClient' = NoDatabase
    /\ CacheClient' = NoDatabase
    /\ GorseConfig' = GetDefaultConfig
    /\ servePc' = "start"
    /\ loadErr' = FALSE
    /\ syncPc' = "off"
    /\ meta' = NilMeta
    /\ prevMeta' = NilMeta
    /\ tickLog' = <<>>
    /\ getMetaCount' = 0
    /\ sleepFor' = "none"
    /\ rpcLog' = <<>>
    /\ hiddenItems' = {}
    /\ updateTime' = ZeroTime
    /\ hcMu' = Unlocked
    /\ hcPc' = "now"
    /\ hcTs' = ZeroTime
    /\ hcNew' = {}
    /\ hcErr' = "nil"
    /\ ih' = IdleCall
    /\ lastHidden' = [items |-> {}, time |-> ZeroTime]
    /\ scores' = << >>
    /\ scMu' = Unlocked
    /\ spc' = [t \in Threads |-> IF t = Loop /\ ~popTest THEN "sync" ELSE "none"]
    /\ snew' = [t \in Threads |-> << >>]
    /\ serr' = [t \in Threads |-> "nil"]
    /\ ssrc' = [t \in Threads |-> << >>]
    /\ gs' = [h \in Handlers |-> IdleScore]
    /\ lastSource' = [published |-> FALSE, data |-> << >>]
    /\ everPopular' = {}
    /\ UNCHANGED <<cacheFile, testMode, envVars, popStore, popTest>>

(***************************************************************************)
(* The cache store: the clock and the hidden-items sorted collection.      *)
(***************************************************************************)
Put(f, k, v) == [x \in DOMAIN f \cup {k} |-> IF x = k THEN v ELSE f[x]]

Del(f, k) == [x \in DOMAIN f \ {k} |-> f[x]]

Min(x, y) == IF x < y THEN x ELSE y

ClockTick ==
    /\ clock < MaxTime
    /\ clock' = clock + 1
    /\ UNCHANGED <<idVars, syncVars, hiddenStore, firstHidden, hiddenVars, popVars>>

\* a writer records item as hidden from timestamp ts on, in the store at addr
HideItem(addr, item, ts) ==
    /\ ts >= clock
    /\ hiddenStore' = [hiddenStore EXCEPT ![addr] = Put(@, item, ts)]
    /\ firstHidden' = Put(firstHidden, item,
                          IF item \in DOMAIN firstHidden THEN Min(firstHidden[item], ts) ELSE ts)
    /\ UNCHANGED <<idVars, syncVars, clock, hiddenVars, popVars>>

\* a writer removes item from the hidden-items collection of the store at addr
UnhideItem(addr, item) ==
    /\ item \in DOMAIN hiddenStore[addr]
    /\ hiddenStore' = [hiddenStore EXCEPT ![addr] = Del(@, item)]
    /\ UNCHANGED <<idVars, syncVars, clock, firstHidden, hiddenVars, popVars>>

\* CacheClient.GetSortedByScore(cache.HiddenItemsV2, begin, end): the entries
\* with begin <= score <= end; an error on a client that is no connection
GetSortedByScore(client, begin, end, outcome) ==
    IF client \notin CacheAddrs THEN [items |-> {}, err |-> "error"]
    ELSE IF outcome # "ok" THEN [items |-> {}, err |-> outcome]
    ELSE [items |-> {[Id |-> x, Score |-> hiddenStore[client][x]] :
                        x \in {y \in DOMAIN hiddenStore[client] :
                                 begin <= hiddenStore[client][y] /\ hiddenStore[client][y] <= end}},
          err |-> "nil"]

\* strset.New(cache.RemoveScores(score)...)
RemoveScores(items) == {e.Id : e \in items}

(***************************************************************************)
(* HiddenItemsCache.sync, run by the goroutine of NewHiddenItemsCache.     *)
(***************************************************************************)
\* mu.Lock() returns
CanLock(mu) == ~mu.writer /\ mu.readers = 0

CanRLockAlways(mu) == TRUE

\* mu.RLock() returns
CanRLock(mu) == ~mu.writer

\* ts := time.Now()
HcNow ==
    /\ hcPc = "now"
    /\ hcTs' = clock
    /\ hcPc' = "query"
    /\ UNCHANGED <<idVars, syncVars, envVars, popVars, hiddenItems, updateTime, hcMu, hcNew, hcErr, ih, lastHidden>>

QueryFailedOnlyLogged(err) == err = "error"

\* `if err != nil { ...; return }`
QueryFailed(err) == err # "nil"

\* the upper bound of the refresh query: float64(ts.Unix())
SyncEnd(ts) == ts

\* the range query, and the set built from it; on an error the refresh is
\* about to return ("failed")
HcQuery(outcome) ==
    /\ hcPc = "query"
    /\ LET r == GetSortedByScore(CacheClient, NegInf, SyncEnd(hcTs), outcome)
       IN /\ hcErr' = r.err
          /\ IF QueryFailed(r.err)
             THEN /\ hcPc' = "failed"
                  /\ hcTs' = ZeroTime
                  /\ UNCHANGED hcNew
             ELSE /\ hcNew' = RemoveScores(r.items)
                  /\ hcPc' = "lock"
                  /\ UNCHANGED hcTs
    /\ UNCHANGED <<idVars, syncVars, envVars, popVars, hiddenItems, updateTime, hcMu, ih, lastHidden>>

\* hc.mu.Lock(); hc.hiddenItems = hiddenItems
HcStoreItems ==
    /\ hcPc = "lock"
    /\ CanLock(hcMu)
    /\ hcMu' = [hcMu EXCEPT !.writer = TRUE]
    /\ hiddenItems' = hcNew
    /\ hcPc' = "store"
    /\ UNCHANGED <<idVars, syncVars, envVars, popVars, updateTime, hcTs, hcNew, hcErr, ih, lastHidden>>

\* hc.updateTime = ts; the deferred hc.mu.Unlock()
HcStoreTime ==
    /\ hcPc = "store"
    /\ updateTime' = hcTs
    /\ hcMu' = [hcMu EXCEPT !.writer = FALSE]
    /\ hcPc' = "sleep"
    /\ hcTs' = ZeroTime
    /\ hcNew' = {}
    /\ hcErr' = "nil"
    /\ lastHidden' = [items |-> hcNew, time |-> hcTs]
    /\ UNCHANGED <<idVars, syncVars, envVars, popVars, hiddenItems, ih>>

\* the return of a failed sync if it has not returned yet, time.Sleep(CacheExpire),
\* then the next refresh
HcSleep ==
    /\ hcPc \in {"sleep", "failed"}
    /\ hcPc' = "now"
    /\ hcErr' = "nil"
    /\ UNCHANGED <<idVars, syncVars, envVars, popVars, hiddenItems, updateTime, hcMu, hcTs, hcNew, ih, lastHidden>>

(***************************************************************************)
(* HiddenItemsCache.IsHidden.                                              *)
(***************************************************************************)
\* hc.mu.RLock(); hiddenItems := hc.hiddenItems
IhReadItems(members) ==
    /\ ih.pc \in {"idle", "done"}
    /\ CanRLock(hcMu)
    /\ hcMu' = [hcMu EXCEPT !.readers = @ + 1]
    /\ ih' = [IdleCall EXCEPT !.pc = "read", !.members = members, !.items = hiddenItems]
    /\ UNCHANGED <<idVars, syncVars, envVars, popVars, hiddenItems, updateTime, hcPc, hcTs, hcNew, hcErr, lastHidden>>

RUnlockMissing(mu) == mu

\* mu.RUnlock()
RUnlock(mu) == [mu EXCEPT !.readers = @ - 1]

\* updateTime := hc.updateTime; hc.mu.RUnlock()
IhReadTime ==
    /\ ih.pc = "read"
    /\ hcMu' = RUnlock(hcMu)
    /\ ih' = [ih EXCEPT !.pc = "delta", !.time = updateTime]
    /\ UNCHANGED <<idVars, syncVars, envVars, popVars, hiddenItems, updateTime, hcPc, hcTs, hcNew, hcErr, lastHidden>>

IsHiddenReturnIgnoringErr(members, items, delta) ==
    [result |-> [i \in 1..Len(members) |-> members[i] \in items], err |-> FALSE]

\* `return nil, errors.Trace(err)` or the lo.Map over members
IsHiddenReturn(members, items, delta) ==
    IF delta.err # "nil" THEN [result |-> <<>>, err |-> TRUE]
    ELSE [result |-> [i \in 1..Len(members) |->
                        members[i] \in items \/ members[i] \in RemoveScores(delta.items)],
          err |-> FALSE]

DeltaEndForever(now) == MaxTime

\* the upper bound of the delta query: float64(time.Now().Unix())
DeltaEnd(now) == now

\* the delta query from updateTime to time.Now(), and the return
IhDelta(outcome) ==
    /\ ih.pc = "delta"
    /\ LET delta == GetSortedByScore(CacheClient, ih.time, DeltaEnd(clock), outcome)
           ret == IsHiddenReturn(ih.members, ih.items, delta)
       IN ih' = [IdleCall EXCEPT !.pc = "done", !.members = ih.members,
                                 !.deltaErr = (delta.err # "nil"),
                                 !.result = ret.result, !.err = ret.err]
    /\ UNCHANGED <<idVars, syncVars, envVars, popVars, hcVars, lastHidden>>

(***************************************************************************)
(* The popular-items sorted collection of the cache store.                 *)
(***************************************************************************)
\* a writer sets the score of item in the collection of the store at addr
SetPopular(addr, item, score) ==
    /\ popStore' = [popStore EXCEPT ![addr] = Put(@, item, score)]
    /\ UNCHANGED <<idVars, syncVars, envVars, hiddenVars, scores, scMu, popTest, spc, snew,
                   serr, ssrc, gs, lastSource, everPopular>>

\* a writer removes item from the collection of the store at addr
RemPopular(addr, item) ==
    /\ item \in DOMAIN popStore[addr]
    /\ popStore' = [popStore EXCEPT ![addr] = Del(@, item)]
    /\ UNCHANGED <<idVars, syncVars, envVars, hiddenVars, scores, scMu, popTest, spc, snew,
                   serr, ssrc, gs, lastSource, everPopular>>

\* the entries of collection f as a list ordered by score
RECURSIVE Sorted(_)
Sorted(f) ==
    IF DOMAIN f = {} THEN <<>>
    ELSE LET x == CHOOSE y \in DOMAIN f : \A z \in DOMAIN f : f[y] <= f[z]
         IN <<[Id |-> x, Score |-> f[x]]>> \o Sorted(Del(f, x))

\* CacheClient.GetSorted(cache.Key(cache.PopularItems), 0, -1): the whole
\* collection; an error on a client that is no connection
GetSorted(client, outcome) ==
    IF client \notin CacheAddrs THEN [items |-> <<>>, err |-> "error"]
    ELSE IF outcome # "ok" THEN [items |-> <<>>, err |-> outcome]
    ELSE [items |-> Sorted(popStore[client]), err |-> "nil"]

(***************************************************************************)
(* PopularItemsCache.sync, run by thread t: the goroutine of               *)
(* NewPopularItemsCache, or in test mode the caller of GetSortedScore.     *)
(***************************************************************************)
RECURSIVE FillScores(_, _, _)
FillScores(m, items, i) ==
    IF i > Len(items) THEN m
    ELSE FillScores(Put(m, items[i].Id, items[i].Score), items, i + 1)

BuildScoresInPlace(old, items) == FillScores(old, items, 1)

\* scores := make(map[string]float64); for _, item := range items { ... }
BuildScores(old, items) == FillScores(<< >>, items, 1)

\* where a thread goes on when its sync returns
AfterSync(t) == IF t = Loop THEN "sleep" ELSE "none"

\* the range query and the local map; on an error the refresh is about to
\* return ("failed")
PopQuery(t, outcome) ==
    /\ spc[t] = "sync"
    /\ LET r == GetSorted(CacheClient, outcome)
       IN /\ serr' = [serr EXCEPT ![t] = r.err]
          /\ IF QueryFailed(r.err)
             THEN /\ spc' = [spc EXCEPT ![t] = "failed"]
                  /\ UNCHANGED <<snew, ssrc>>
             ELSE /\ spc' = [spc EXCEPT ![t] = "lock"]
                  /\ snew' = [snew EXCEPT ![t] = BuildScores(scores, r.items)]
                  /\ ssrc' = [ssrc EXCEPT ![t] = popStore[CacheClient]]
    /\ UNCHANGED <<idVars, syncVars, envVars, hiddenVars, popStore, scores, scMu, popTest,
                   gs, lastSource, everPopular>>

\* the return of a failed sync to GetSortedScore
PopReturn(h) ==
    /\ spc[h] = "failed"
    /\ spc' = [spc EXCEPT ![h] = AfterSync(h)]
    /\ serr' = [serr EXCEPT ![h] = "nil"]
    /\ gs' = [gs EXCEPT ![h].pc = "rlock"]
    /\ UNCHANGED <<idVars, syncVars, envVars, hiddenVars, popStore, scores, scMu, popTest,
                   snew, ssrc, lastSource, everPopular>>

\* sc.mu.Lock(); sc.scores = scores
PopStore(t) ==
    /\ spc[t] = "lock"
    /\ CanLock(scMu)
    /\ scMu' = [scMu EXCEPT !.writer = TRUE]
    /\ scores' = snew[t]
    /\ lastSource' = [published |-> TRUE, data |-> ssrc[t]]
    /\ everPopular' = everPopular \cup DOMAIN ssrc[t]
    /\ spc' = [spc EXCEPT ![t] = "unlock"]
    /\ UNCHANGED <<idVars, syncVars, envVars, hiddenVars, popStore, popTest, snew, serr, ssrc, gs>>

\* the deferred sc.mu.Unlock(), and the return of sync
PopUnlock(t) ==
    /\ spc[t] = "unlock"
    /\ scMu' = [scMu EXCEPT !.writer = FALSE]
    /\ spc' = [spc EXCEPT ![t] = AfterSync(t)]
    /\ snew' = [snew EXCEPT ![t] = << >>]
    /\ serr' = [serr EXCEPT ![t] = "nil"]
    /\ ssrc' = [ssrc EXCEPT ![t] = << >>]
    /\ gs' = IF t \in Handlers THEN [gs EXCEPT ![t].pc = "rlock"] ELSE gs
    /\ UNCHANGED <<idVars, syncVars, envVars, hiddenVars, popStore, scores, popTest,
                   lastSource, everPopular>>

\* the return of a failed sync if it has not returned yet, time.Sleep(CacheExpire),
\* then the next refresh
PopSleep ==
    /\ spc[Loop] \in {"sleep", "failed"}
    /\ spc' = [spc EXCEPT ![Loop] = "sync"]
    /\ serr' = [serr EXCEPT ![Loop] = "nil"]
    /\ UNCHANGED <<idVars, syncVars, envVars, hiddenVars, popStore, scores, scMu, popTest,
                   snew, ssrc, gs, lastSource, everPopular>>

(***************************************************************************)
(* PopularItemsCache.GetSortedScore, called by request handler h.          *)
(***************************************************************************)
RunsSyncAlways(test) == TRUE

\* `if sc.test { sc.sync() }`
RunsSync(test) == test

\* the call: in test mode sync runs first
GetSortedScore(h, member) ==
    /\ gs[h].pc \in {"idle", "done"}
    /\ gs' = [gs EXCEPT ![h] = [pc |-> IF RunsSync(popTest) THEN "sync" ELSE "rlock",
                                member |-> member, score |-> 0]]
    /\ spc' = IF RunsSync(popTest) THEN [spc EXCEPT ![h] = "sync"] ELSE spc
    /\ UNCHANGED <<idVars, syncVars, envVars, hiddenVars, popStore, scores, scMu, popTest,
                   snew, serr, ssrc, lastSource, everPopular>>

LookupPresent(m, member) == IF member \in DOMAIN m THEN m[member] ELSE 1

\* `score, _ := sc.scores[member]`: the zero value for a missing key
Lookup(m, member) == IF member \in DOMAIN m THEN m[member] ELSE 0

\* sc.mu.RLock(); score, _ := sc.scores[member]
GsRead(h) ==
    /\ gs[h].pc = "rlock"
    /\ CanRLock(scMu)
    /\ scMu' = [scMu EXCEPT !.readers = @ + 1]
    /\ gs' = [gs EXCEPT ![h].pc = "read", ![h].score = Lookup(scores, gs[h].member)]
    /\ UNCHANGED <<idVars, syncVars, envVars, hiddenVars, popStore, scores, popTest, spc,
                   snew, serr, ssrc, lastSource, everPopular>>

\* the deferred sc.mu.RUnlock(), and `return score`
GsReturn(h) ==
    /\ gs[h].pc = "read"
    /\ scMu' = RUnlock(scMu)
    /\ gs' = [gs EXCEPT ![h].pc = "done"]
    /\ UNCHANGED <<idVars, syncVars, envVars, hiddenVars, popStore, scores, popTest, spc,
                   snew, serr, ssrc, lastSource, everPopular>>

(***************************************************************************)
(* Properties of the sync loop and of the identity bootstrap.              *)
(***************************************************************************)
\* a step of Sync from the top of the loop to the sleep label
IsTick == syncPc = "tick" /\ syncPc' = "sleep"

\* the step of Sync at the sleep label
IsSleep == syncPc = "sleep" /\ syncPc' \in {"tick", "returned"}

\* the step of Serve
IsServe == servePc = "start" /\ servePc' # "start"

\* the pull m carries a store address in member f
Carries(m, f) == ~m.nil /\ m.syntax /\ m[f] \notin {Absent, BadType}

SamePull(f) == Carries(meta, f) /\ Carries(meta', f) /\ meta[f] = meta'[f]

\* C6 as stated: two consecutive pulls with the same data (cache) store
\* address: the tick of the second pull opens no connection to that store.
C6_NoOpenOnSameAddress ==
    [][IsTick =>
        /\ (SamePull("DataStore") => \A i \in DOMAIN tickLog' : tickLog'[i] # "data.Open")
        /\ (SamePull("CacheStore") => \A i \in DOMAIN tickLog' : tickLog'[i] # "cache.Open")]_vars

\* C6 amended: two consecutive pulls with the same data (cache) store address,
\* the address being the recorded one (dataPath / cachePath) when the second
\* tick begins: the tick of the second pull opens no connection to that store.
C6_NoOpenOnRecordedAddress ==
    [][IsTick =>
        /\ (SamePull("DataStore") /\ dataPath = meta.DataStore
              => \A i \in DOMAIN tickLog' : tickLog'[i] # "data.Open")
        /\ (SamePull("CacheStore") /\ cachePath = meta.CacheStore
              => \A i \in DOMAIN tickLog' : tickLog'[i] # "cache.Open")]_vars

\* C6 witness: a second pull with the addresses of the first, parsed, and no
\* Open in its tick.
C6_Witness ==
    /\ syncPc = "sleep"
    /\ getMetaCount >= 2
    /\ Carries(prevMeta, "DataStore") /\ Carries(meta, "DataStore")
    /\ Carries(prevMeta, "CacheStore") /\ Carries(meta, "CacheStore")
    /\ prevMeta.DataStore = meta.DataStore /\ dataPath = meta.DataStore
    /\ prevMeta.CacheStore = meta.CacheStore /\ cachePath = meta.CacheStore
    /\ DataClient = dataPath /\ CacheClient = cachePath
    /\ tickLog = <<"GetMeta", "Unmarshal">>

\* C7: a tick whose GetMeta fails ends at the sleep label with the
\* configuration, both clients and both recorded addresses unchanged, and
\* outside test mode the loop then sleeps MetaTimeout and starts the next tick.
C7_GetMetaFailureSkipsTick ==
    [][/\ (IsTick /\ meta'.nil =>
              UNCHANGED <<GorseConfig, DataClient, CacheClient, dataPath, cachePath>>)
       /\ (IsSleep /\ meta.nil /\ ~testMode =>
              /\ syncPc' = "tick"
              /\ sleepFor' = GorseConfig.MetaTimeout
              /\ UNCHANGED <<GorseConfig, DataClient, CacheClient, dataPath, cachePath>>)]_vars

\* C7 witness: after a tick that connected both stores, a tick whose GetMeta
\* failed, and the loop back at the top after its sleep.
C7_Witness ==
    /\ ~testMode
    /\ syncPc = "tick"
    /\ getMetaCount >= 2
    /\ meta.nil /\ ~prevMeta.nil
    /\ tickLog = <<"GetMeta">>
    /\ DataClient = "d1" /\ CacheClient = "c1"
    /\ sleepFor = "t1"

\* C8: in test mode Sync issues exactly one GetMeta request and returns after
\* that tick, whatever the tick's outcome.
C8_OneShot ==
    testMode =>
        /\ (syncPc \in {"off", "tick"} => getMetaCount = 0)
        /\ (syncPc \in {"sleep", "returned"} => getMetaCount = 1)
        /\ (syncPc = "sleep" => ENABLED SyncSleep)
        /\ (syncPc = "returned" => Len(tickLog) >= 1 /\ tickLog[1] = "GetMeta")

\* C8 witness: Sync has returned in test mode from a tick whose data store
\* open failed.
C8_Witness ==
    /\ testMode
    /\ syncPc = "returned"
    /\ getMetaCount = 1
    /\ tickLog = <<"GetMeta", "Unmarshal", "data.Open">>
    /\ DataClient = FailedOpen

\* C10 as stated: a start that finds a persisted name uses it and leaves the
\* file alone.
C10_SameNameEveryStart ==
    [][IsServe /\ cacheFile # NoName =>
          /\ cacheFile' = cacheFile
          /\ servePc' = "serving" => serverName' = cacheFile]_vars

\* C10 amended: a start that finds a persisted name and loads it without
\* error uses it and leaves the file alone.
C10_SameNameWhenLoaded ==
    [][IsServe /\ cacheFile # NoName /\ ~loadErr' =>
          /\ cacheFile' = cacheFile
          /\ servePc' = "serving" => serverName' = cacheFile]_vars

\* C10 witness: a later start serving under the name the file holds.
C10_Witness ==
    /\ starts >= 1
    /\ servePc = "serving"
    /\ ~loadErr
    /\ serverName # NoName
    /\ serverName = cacheFile

\* the call c was made in the tick that logged log
Called(log, c) == \E i \in DOMAIN log : log[i] = c

C12_ConfigIsLastParsedPull ==
    [][IsTick =>
          IF ~meta'.nil /\ ~Unmarshal(meta', GorseConfig).err
          THEN GorseConfig' = Unmarshal(meta', GetDefaultConfig).cfg
          ELSE GorseConfig' = GorseConfig]_vars

\* the open calls of a tick, in order
OpenCalls(log) == SelectSeq(log, LAMBDA c : c \in {"data.Open", "cache.Open"})

\* the tick that ends in the primed state opened the data store and failed
DataOpenFailed == Called(tickLog', "data.Open") /\ DataClient' = FailedOpen

\* C16: a tick opens each store at most once and the data store first; a tick
\* whose data store open fails attempts no cache store open, leaves the
\* recorded cache address and the cache handle alone and is at the sleep label.
C16_DataFailureSkipsCache ==
    [][IsTick =>
          /\ OpenCalls(tickLog') \in {<<>>, <<"data.Open">>, <<"cache.Open">>,
                                      <<"data.Open", "cache.Open">>}
          /\ DataOpenFailed =>
                /\ ~Called(tickLog', "cache.Open")
                /\ UNCHANGED <<cachePath, CacheClient>>
                /\ syncPc' = "sleep"]_vars

\* C16 witness: the second tick pulled new addresses for both stores, its data
\* store open failed, and the cache store of the first tick is still held.
C16_Witness ==
    /\ syncPc = "sleep"
    /\ getMetaCount = 2
    /\ tickLog = <<"GetMeta", "Unmarshal", "data.Open">>
    /\ DataClient = FailedOpen
    /\ GorseConfig.CacheStore = "c2"
    /\ cachePath = "c1" /\ CacheClient = "c1"

\* the tick that ends in the primed state failed: at GetMeta, at the parse, or
\* at a store open
TickFailed ==
    \/ meta'.nil
    \/ Unmarshal(meta', GorseConfig).err
    \/ DataOpenFailed
    \/ Called(tickLog', "cache.Open") /\ CacheClient' = FailedOpen

\* C17: a tick that fails does not change the interval of the held
\* configuration, and the sleep of a tick uses the interval held.
C17_FailedTickKeepsInterval ==
    [][/\ (IsTick /\ TickFailed => GorseConfig'.MetaTimeout = GorseConfig.MetaTimeout)
       /\ (IsSleep /\ ~testMode => sleepFor' = GorseConfig.MetaTimeout)]_vars

\* open(addr): the connection to addr; the no-database handle for no address
HandleOf(path) == IF path = NoPath THEN NoDatabase ELSE path

\* C19: each held handle is the connection to the address recorded for it, or
\* the no-database handle when no address is recorded.
C19_HandleMatchesAddress ==
    /\ DataClient = HandleOf(dataPath)
    /\ CacheClient = HandleOf(cachePath)

(***************************************************************************)
(* Properties of the caches.                                               *)
(***************************************************************************)
\* the step of IsHidden that runs the delta query and returns
IsDelta == ih.pc = "delta" /\ ih'.pc = "done"

\* the timestamp of item x in the hidden-items collection of the connected
\* cache store is known
IsListed(x) == CacheClient \in CacheAddrs /\ x \in DOMAIN hiddenStore[CacheClient]

\* C1: an IsHidden call that returns without error at time now returns true
\* for every member listed in the hidden-items collection with a "became
\* hidden" timestamp T <= now.
C1_NoFalseNegative ==
    [][IsDelta /\ ~ih'.err =>
          \A i \in 1..Len(ih'.members) :
              LET x == ih'.members[i]
              IN IsListed(x) /\ hiddenStore[CacheClient][x] <= clock => ih'.result[i]]_vars

\* C2 as stated: an IsHidden call that returns without error at time now
\* returns false for every member listed with a timestamp T > now.
C2_NoPrematurePositive ==
    [][IsDelta /\ ~ih'.err =>
          \A i \in 1..Len(ih'.members) :
              LET x == ih'.members[i]
              IN IsListed(x) /\ hiddenStore[CacheClient][x] > clock => ~ih'.result[i]]_vars

\* C2 amended: the same for every member listed with a timestamp T > now that
\* was never written to a hidden-items collection with a timestamp <= now.
C2_NoPrematurePositiveOfNew ==
    [][IsDelta /\ ~ih'.err =>
          \A i \in 1..Len(ih'.members) :
              LET x == ih'.members[i]
              IN IsListed(x) /\ hiddenStore[CacheClient][x] > clock /\ firstHidden[x] > clock
                    => ~ih'.result[i]]_vars

\* C2 witness: after a refresh, IsHidden has returned false for an item whose
\* timestamp lies ahead.
C2_Witness ==
    /\ ih.pc = "done" /\ ~ih.err
    /\ ih.members = <<"a">> /\ ih.result = <<FALSE>>
    /\ updateTime # ZeroTime
    /\ IsListed("a")
    /\ hiddenStore[CacheClient]["a"] > clock
    /\ firstHidden["a"] > clock

\* C9: when the delta query of IsHidden fails, IsHidden returns an error and
\* no result list, and the snapshot of the cache is as before.
C9_DeltaFailureIsAnError ==
    [][IsDelta /\ ih'.deltaErr =>
          /\ ih'.err
          /\ ih'.result = <<>>
          /\ UNCHANGED <<hiddenItems, updateTime>>]_vars

\* C9 witness: the delta query failed for a listed item the snapshot lacks,
\* and IsHidden returned the error.
C9_Witness ==
    /\ ih.pc = "done" /\ ih.deltaErr /\ ih.err /\ ih.result = <<>>
    /\ ih.members = <<"a">>
    /\ IsListed("a") /\ hiddenStore[CacheClient]["a"] <= clock
    /\ "a" \notin hiddenItems
    /\ updateTime # ZeroTime

\* C3: GetSortedScore goes on when the refresh inside it fails, and reads 0
\* for a member that is not in scores.
C3_ZeroForAbsent ==
    \A h \in Handlers :
        /\ (gs[h].pc = "sync") = (spc[h] # "none")
        /\ (gs[h].pc = "read" /\ gs[h].member \notin DOMAIN scores => gs[h].score = 0)

\* C3 witness: after a refresh that found items, a lookup of another item read 0.
C3_Witness ==
    \E h \in Handlers :
        /\ gs[h].pc = "read"
        /\ scores # << >>
        /\ gs[h].member \notin DOMAIN scores
        /\ gs[h].score = 0

\* C4: once a refresh has published, a lookup reads the score the member has
\* in the collection that refresh read, and 0 if it had none.
C4_ScoresAreTheSource ==
    \A h \in Handlers :
        gs[h].pc = "read" /\ lastSource.published =>
            gs[h].score = IF gs[h].member \in DOMAIN lastSource.data
                          THEN lastSource.data[gs[h].member] ELSE 0

\* C4 witness: a lookup read 0 for an item an earlier snapshot held and the
\* collection read by the last refresh, which is not empty, lacks.
C4_Witness ==
    \E h \in Handlers :
        /\ gs[h].pc = "read"
        /\ lastSource.published
        /\ lastSource.data # << >>
        /\ gs[h].member \in everPopular
        /\ gs[h].member \notin DOMAIN lastSource.data
        /\ gs[h].score = 0

\* C5: a reader holds the snapshot of one refresh: between its two reads
\* IsHidden holds the item set of the last completed refresh and is about
\* to read that refresh's timestamp, and the map GetSortedScore looks up is
\* the collection one refresh read (or the empty map of the constructor).
C5_ReadersSeeOneRefresh ==
    /\ ih.pc = "read" =>
          /\ ih.items = lastHidden.items
          /\ hiddenItems = lastHidden.items
          /\ updateTime = lastHidden.time
    /\ \A h \in Handlers : gs[h].pc = "read" => scores = lastSource.data

\* C5 witness: a request handler is between the two reads of IsHidden, of a
\* snapshot that is not the first, while the next refresh waits for the lock
\* with another item set.
C5_Witness ==
    /\ ih.pc = "read"
    /\ lastHidden.items # {}
    /\ hcPc = "lock"
    /\ hcNew # hiddenItems
    /\ hcTs # updateTime

\* the step in which the refresh of the hidden-items cache runs its query
IsHcQuery == hcPc = "query" /\ hcPc' # "query"

\* the step in which thread t runs the query of the popularity refresh
IsPopQuery(t) == spc[t] = "sync" /\ spc'[t] # "sync"

\* C13: no step of a refresh whose query failed, with either kind of error,
\* changes the published snapshot: the item set and the update time of the
\* hidden-items cache, the scores of the popularity cache.
C13_FailedRefreshKeepsSnapshot ==
    [][/\ (hcErr' # "nil" /\ hcPc' # hcPc => UNCHANGED <<hiddenItems, updateTime>>)
       /\ \A t \in Threads :
             serr'[t] # "nil" /\ spc'[t] # spc[t] => UNCHANGED scores]_vars

\* C13 witness: a refresh of the hidden-items cache failed after an earlier
\* one had published items, which are still the snapshot.
C13_Witness ==
    /\ hcPc = "failed"
    /\ hcErr = "error"
    /\ CacheClient \in CacheAddrs
    /\ hiddenItems # {}
    /\ hiddenItems = lastHidden.items
    /\ updateTime = lastHidden.time

\* C14: a cache lock is held only by a refresh past its query (exclusive) and
\* by a reader between its lock and its unlock, which is before the delta
\* query of IsHidden (shared): no thread at a query holds a lock.
C14_NoLockAcrossQuery ==
    /\ hcMu.writer = (hcPc = "store")
    /\ hcMu.readers = (IF ih.pc = "read" THEN 1 ELSE 0)
    /\ scMu.writer = (\E t \in Threads : spc[t] = "unlock")
    /\ scMu.readers = Cardinality({h \in Handlers : gs[h].pc = "read"})

\* C14 witness: IsHidden is at its delta query, its shared lock released,
\* while the refresh holds the exclusive lock to publish.
C14_Witness ==
    /\ ih.pc = "delta"
    /\ hcPc = "store"
    /\ hcMu = [writer |-> TRUE, readers |-> 0]

\* C20: a refresh of either cache runs its query only once Sync has started
\* and the handle is no longer the placeholder of NewServer.
C20_RefreshAfterConnect ==
    [][(IsHcQuery \/ \E t \in Threads : IsPopQuery(t)) =>
          syncPc # "off" /\ CacheClient # NoDatabase]_vars

\* the threads whose run of the popularity refresh is between its start and
\* its publish step
Refreshing == {t \in Threads : spc[t] \in {"sync", "lock"}}

\* C15 as stated: in either mode of the popularity cache at most one refresh
\* is between its start and its publish step. (HiddenItemsCache.sync has one
\* caller, the goroutine of NewHiddenItemsCache.)
C15_OneRefreshAtATime == Cardinality(Refreshing) <= 1

\* C15 amended: the same in background-timer mode.
C15_OneRefreshInTimerMode == ~popTest => Cardinality(Refreshing) <= 1

\* C15 witness: in background-timer mode two lookups read the scores while the
\* one refresh waits to publish.
C15_Witness ==
    /\ ~popTest
    /\ Refreshing = {Loop}
    /\ spc[Loop] = "lock"
    /\ \A h \in Handlers : gs[h].pc = "read"

ServeAny == \E loadOk, writeOk, dialOk \in BOOLEAN : \E n \in Names : Serve(loadOk, n, writeOk, dialOk)

SyncTickAny == \E res \in Blobs \cup {NilMeta} : \E dataOk, cacheOk \in BOOLEAN : SyncTick(res, dataOk, cacheOk)

Next ==
    \/ ServeAny
    \/ SyncTickAny
    \/ SyncSleep
    \/ Restart

Spec == Init /\ [][Next]_vars

\* the self-healing specification: MaxTicks ticks with any pull and any
\* outcome of the opens, then the master returns GoodBlob and the opens
\* succeed for ever; the goroutine of Sync is scheduled fairly and its sleeps end
GoodBlob == FullBlob("d1", "c1", "t1")

ServeOnce == Serve(TRUE, "n1", TRUE, TRUE)

SyncTickGood == SyncTickSteady(GoodBlob, TRUE, TRUE)

NextHeal ==
    \/ ServeOnce
    \/ SyncTickAny
    \/ SyncTickGood
    \/ SyncSleep

InitHeal == Init /\ cacheFile = NoName /\ ~testMode

SpecHeal == InitHeal /\ [][NextHeal]_vars /\ WF_vars(NextHeal)

\* both stores are connected as GoodBlob says
Healed ==
    /\ dataPath = GoodBlob.DataStore /\ DataClient = GoodBlob.DataStore
    /\ cachePath = GoodBlob.CacheStore /\ CacheClient = GoodBlob.CacheStore

\* C18: once the master returns GoodBlob and the opens succeed for ever, the
\* recorded addresses and the held handles eventually are those of GoodBlob,
\* and stay so.
C18_SelfHeals == <>[]Healed

\* the hidden-items specification: one server, the sync loop pulling
\* configurations that move the cache store, writers, the refresh goroutine
\* and a request handler calling IsHidden
Members == {<<x>> : x \in HiddenIds}

SyncTickHidden == \E res \in CacheBlobs : SyncTick(res, TRUE, TRUE)

\* the steps of the writers at the stores addrs, of the clock, of the refresh
\* goroutine and of the request handler
HiddenSteps(addrs) ==
    \/ ClockTick
    \/ \E addr \in addrs, item \in HiddenIds, ts \in 0..MaxTime : HideItem(addr, item, ts)
    \/ \E addr \in addrs, item \in HiddenIds : UnhideItem(addr, item)
    \/ HcNow
    \/ \E outcome \in Outcomes : HcQuery(outcome)
    \/ HcStoreItems
    \/ HcStoreTime
    \/ HcSleep
    \/ \E members \in Members : IhReadItems(members)
    \/ IhReadTime
    \/ \E outcome \in Outcomes : IhDelta(outcome)

NextHidden ==
    \/ ServeOnce
    \/ SyncTickHidden
    \/ SyncSleep
    \/ HiddenSteps(CacheAddrs)

InitHidden == Init /\ cacheFile = NoName /\ ~testMode

SpecHidden == InitHidden /\ [][NextHidden]_vars

\* the popular-items specification: one server in either mode of the cache,
\* the sync loop connecting the cache store, writers, the refresh goroutine
\* and a request handler calling GetSortedScore
PopBlobs == { FullBlob("d1", "c1", "t1") }

SyncTickPop == \E res \in PopBlobs : \E cacheOk \in BOOLEAN : SyncTick(res, TRUE, cacheOk)

\* the steps of the writers of items at the stores addrs, of the goroutine
\* and of the request handlers hs, which look up items
PopSteps(addrs, hs, items) ==
    \/ \E addr \in addrs, item \in items, score \in 1..MaxScore : SetPopular(addr, item, score)
    \/ \E addr \in addrs, item \in items : RemPopular(addr, item)
    \/ \E t \in {Loop} \cup hs, outcome \in Outcomes : PopQuery(t, outcome)
    \/ \E t \in {Loop} \cup hs : PopStore(t)
    \/ \E t \in {Loop} \cup hs : PopUnlock(t)
    \/ \E h \in hs : PopReturn(h)
    \/ PopSleep
    \/ \E h \in hs, member \in items : GetSortedScore(h, member)
    \/ \E h \in hs : GsRead(h)
    \/ \E h \in hs : GsReturn(h)

NextPop ==
    \/ ServeOnce
    \/ SyncTickPop
    \/ SyncSleep
    \/ PopSteps({"c1"}, {"h1"}, Items)

InitPop ==
    /\ NewServer
    /\ NewHiddenItemsCache
    /\ \E test \in BOOLEAN : NewPopularItemsCache(test)
    /\ InitEnv
    /\ cacheFile = NoName
    /\ testMode = FALSE
    /\ starts = 0

SpecPop == InitPop /\ [][NextPop]_vars

\* the specification of both caches. They share no state but CacheClient,
\* which neither writes: a behaviour exercises one of them, the other staying
\* as constructed.
PopUntouched ==
    /\ popStore = [c \in CacheAddrs |-> << >>]
    /\ NewPopularItemsCache(popTest)

HiddenUntouched ==
    /\ clock = 0
    /\ hiddenStore = [c \in CacheAddrs |-> << >>]
    /\ firstHidden = << >>
    /\ NewHiddenItemsCache

NextCaches ==
    \/ ServeOnce
    \/ SyncTickPop
    \/ SyncSleep
    \/ PopUntouched /\ HiddenSteps({"c1"})
    \/ HiddenUntouched /\ PopSteps({"c1"}, {"h1"}, Items)

SpecCaches == InitPop /\ [][NextCaches]_vars

\* the specification of concurrent lookups: two request handlers looking up
\* one item, in either mode of the popularity cache
NextLookups ==
    \/ ServeOnce
    \/ SyncTickPop
    \/ SyncSleep
    \/ PopSteps({"c1"}, Handlers, {"a"})

SpecLookups == InitPop /\ [][NextLookups]_vars

====
